---- MODULE Spec2Model ----
(***************************************************************************)
(* A model of BaseOntologyPlugin (linkml_term_validator/plugins/base.py):  *)
(* the per-prefix adapter resolver, the two-tier label cache, the unknown  *)
(* prefix tracker and the dynamic enum expansion.                          *)
(*                                                                         *)
(* Strings are sequences of one-character strings.  An Optional value is   *)
(* a sequence of length at most one: None is << >>, a value v is << v >>.  *)
(***************************************************************************)
EXTENDS Integers, Sequences, FiniteSets, TLC

\* ------------------------------------------------------------------ bounds

\* The longest text, in characters, drawn for normalize_string next to the
\* texts of the tests.
MaxText == 3

\* How often one action may reach the backend label operation for one
\* identifier, or backend construction for one prefix, on one instance.
MaxCalls == 2

\* The nested expand_enum calls Python allows before it raises RecursionError.
RecursionLimit == 3

\* ------------------------------------------------------------ value helpers

None == << >>

Some(v) == << v >>

EmptyMap == [k \in {} |-> << >>]

\* the members of a list
SeqSet(s) == { s[i] : i \in 1..Len(s) }

\* a counting stub: the calls counted for key, and the counter after one more
\* call for key, if hit
Calls(counter, key) == IF key \in DOMAIN counter THEN counter[key] ELSE 0

Count(counter, key, hit) ==
    IF hit
    THEN [k \in (DOMAIN counter) \cup {key} |->
            IF k = key THEN Calls(counter, key) + 1 ELSE counter[k]]
    ELSE counter

\* d[k] = v of a Python dict
Put(d, k, v) == [x \in (DOMAIN d) \cup {k} |-> IF x = k THEN v ELSE d[x]]

\* Python truthiness of an Optional string: None and "" are falsy
Truthy(opt) == opt # None /\ opt[1] # << >>

\* str.lower() on the characters the model uses
LowerChar(c) ==
    CASE c = "G" -> "g" [] c = "E" -> "e" [] c = "H" -> "h" [] c = "W" -> "w"
      [] c = "T" -> "t" [] c = "C" -> "c" [] c = "R" -> "r" [] OTHER -> c

Lower(s) == [i \in 1..Len(s) |-> LowerChar(s[i])]

\* ---------------------------------------------------------------- universe

\* The identifiers handed to get_ontology_label and used as source nodes.
GO1 == <<"G", ":", "1">>

GO2 == <<"G", ":", "2">>

E1 == <<"E", ":", "1", ":", "2">>

NoColon == <<"x", "1">>

EmptyPrefix == <<":", "1">>

Curies == {GO1, GO2, E1, NoColon, EmptyPrefix}

\* A term whose prefix differs from that of GO1 only in case.
g1 == <<"g", ":", "1">>

\* The label the ontology holds for each term: plain, or with a carriage
\* return in it.
OntologyLabel(curie) == IF curie = GO2 THEN <<"b", "\r">> ELSE <<"a">>

\* The values of oak_adapter_string given to the constructor.
SqliteObo == <<"sqlite:obo:">>

AdapterStrings == { SqliteObo, <<"ols:">> }

\* The mappings an oak_config.yaml may carry under ontology_adapters.
MapEmpty == EmptyMap

MapGO == [p \in {<<"G">>} |-> <<"sqlite:obo:", "g">>]

MapGOandEmptyE == [p \in {<<"G">>, <<"E">>} |->
                     IF p = <<"G">> THEN <<"simpleobo:", "g", ".obo">> ELSE << >>]

\* A configuration document: with or without the ontology_adapters key.
ConfigDocs == { [ontology_adapters |-> None],
                [ontology_adapters |-> Some(MapEmpty)],
                [ontology_adapters |-> Some(MapGO)],
                [ontology_adapters |-> Some(MapGOandEmptyE)] }

\* oak_config_path: None, or a path to an existing document.
ConfigPaths == {None} \cup { Some(d) : d \in ConfigDocs }

\* -------------------------------------------------------------------- state

VARIABLES
    oak_adapter_string,   \* config.oak_adapter_string
    cache_labels,         \* config.cache_labels
    oak_config_path,      \* config.oak_config_path (the document it names)
    _oak_config,          \* self._oak_config
    _label_cache,         \* self._label_cache: curie -> Optional label
    _adapter_cache,       \* self._adapter_cache: prefix -> Optional adapter
    _unknown_prefixes,    \* self._unknown_prefixes
    disk,                 \* cache_dir: lowercased prefix -> Optional rows of terms.csv
    now,                  \* datetime.now()
    label_queries,        \* adapter.label calls per curie on this instance
    constructions,        \* oaklib get_adapter calls per prefix on this instance
    fresh,                \* no call was made on this instance yet
    obtained,             \* curie -> Optional label retrieved and stored, over all instances
    returned,             \* curie -> what get_ontology_label first returned on this instance
    other,                \* the second instance over the same cache_dir, while it is not running
    ret                   \* the last call and what it returned

vars == << oak_adapter_string, cache_labels, oak_config_path, _oak_config,
           _label_cache, _adapter_cache, _unknown_prefixes, disk, now,
           label_queries, constructions, fresh, obtained, returned, other,
           ret >>

\* the configuration and in-memory state of the running instance
Instance ==
    [oak_adapter_string |-> oak_adapter_string, cache_labels |-> cache_labels,
     oak_config_path |-> oak_config_path, _oak_config |-> _oak_config,
     _label_cache |-> _label_cache, _adapter_cache |-> _adapter_cache,
     _unknown_prefixes |-> _unknown_prefixes, label_queries |-> label_queries,
     constructions |-> constructions, fresh |-> fresh, returned |-> returned]

\* BaseOntologyPlugin(cache_dir=...): an instance constructed with the
\* defaults of __init__, before its first call
DefaultInstance ==
    [oak_adapter_string |-> SqliteObo, cache_labels |-> TRUE,
     oak_config_path |-> None, _oak_config |-> EmptyMap,
     _label_cache |-> EmptyMap, _adapter_cache |-> EmptyMap,
     _unknown_prefixes |-> {}, label_queries |-> EmptyMap,
     constructions |-> EmptyMap, fresh |-> TRUE, returned |-> EmptyMap]

\* ------------------------------------------------------------- pure helpers

HasColon(curie) == \E i \in 1..Len(curie) : curie[i] = ":"

FirstColon(curie) ==
    CHOOSE i \in 1..Len(curie) :
        curie[i] = ":" /\ \A j \in 1..(i - 1) : curie[j] # ":"

\* the prefix without the test for a colon: split() then returns the whole
\* identifier
_get_prefix_unchecked(curie) ==
    IF ~HasColon(curie) THEN Some(curie)
    ELSE Some(SubSeq(curie, 1, FirstColon(curie) - 1))

\* curie.split(":", 1)[0], or None without a colon
_get_prefix(curie) ==
    IF ~HasColon(curie) THEN None
    ELSE Some(SubSeq(curie, 1, FirstColon(curie) - 1))

Prefixes == { _get_prefix(c)[1] : c \in { c \in Curies : Truthy(_get_prefix(c)) } }

\* the configuration read by _load_oak_config from the document
_load_oak_config(path) ==
    IF path = None THEN EmptyMap
    ELSE IF path[1].ontology_adapters = None THEN EmptyMap
    ELSE path[1].ontology_adapters[1]

_is_prefix_configured(config, prefix) ==
    prefix \in DOMAIN config /\ config[prefix] # << >>

\* the directory of _get_cache_file(prefix); its terms.csv is disk[dir]
_get_cache_file(prefix) == Lower(prefix)

\* ------------------------------------------------- the persistent tier (csv)

\* What a text-mode read (open() without newline="") makes of a field:
\* "\r\n" and a lone "\r" both arrive as "\n".
RECURSIVE UniversalNewlines(_)
UniversalNewlines(s) ==
    IF s = << >> THEN << >>
    ELSE IF s[1] = "\r"
         THEN IF Len(s) >= 2 /\ s[2] = "\n"
              THEN <<"\n">> \o UniversalNewlines(SubSeq(s, 3, Len(s)))
              ELSE <<"\n">> \o UniversalNewlines(Tail(s))
         ELSE <<s[1]>> \o UniversalNewlines(Tail(s))

\* A Python dict of curie -> label in insertion order: a sequence of
\* [curie, label] with distinct curies.
DictHas(d, curie) == \E i \in 1..Len(d) : d[i].curie = curie

DictGet(d, curie) == d[CHOOSE i \in 1..Len(d) : d[i].curie = curie].label

DictSet(d, curie, label) ==
    IF DictHas(d, curie)
    THEN [i \in 1..Len(d) |->
            IF d[i].curie = curie THEN [curie |-> curie, label |-> label] ELSE d[i]]
    ELSE Append(d, [curie |-> curie, label |-> label])

\* prefix_dir.mkdir(parents=True, exist_ok=True)
Mkdir(d, prefix) ==
    IF _get_cache_file(prefix) \in DOMAIN d THEN d
    ELSE Put(d, _get_cache_file(prefix), None)

RECURSIVE ReadRows(_, _)
ReadRows(rows, cached) ==
    IF rows = << >> THEN cached
    ELSE ReadRows(Tail(rows),
                  DictSet(cached, UniversalNewlines(rows[1].curie),
                          UniversalNewlines(rows[1].label)))

\* the dict _load_cache returns for the file of prefix in cache root d
_load_cache(d, prefix) ==
    LET file == Mkdir(d, prefix)[_get_cache_file(prefix)]
    IN  IF file = None THEN << >> ELSE ReadRows(file[1], << >>)

\* the cache root after _save_to_cache(prefix, curie, label) at time t
_save_to_cache(d, prefix, curie, label, t) ==
    LET existing == DictSet(_load_cache(d, prefix), curie, label)
        rows == [i \in 1..Len(existing) |->
                   [curie |-> existing[i].curie, label |-> existing[i].label,
                    retrieved_at |-> t]]
    IN  Put(Mkdir(d, prefix), _get_cache_file(prefix), Some(rows))

\* ------------------------------------------------------------ normalization

\* \s of Python's re on the characters the model uses
SpaceChars == {" ", "\t", "\n", "\r"}

\* \w of Python's re on the characters the model uses: letters, digits and
\* the underscore
WordChars ==
    {"a", "b", "c", "d", "e", "g", "h", "l", "o", "p", "r", "t", "w", "x",
     "C", "E", "G", "H", "R", "T", "W", "0", "1", "2", "_"}

\* re.sub(r"[^\w\s]", " ", s): every character that is neither a word
\* character nor whitespace becomes a space
SubNonWord(s) ==
    [i \in 1..Len(s) |-> IF s[i] \in WordChars \cup SpaceChars THEN s[i] ELSE " "]

\* re.sub(r"\s+", " ", s): every maximal run of whitespace becomes one space
RECURSIVE SubSpaces(_)
SubSpaces(s) ==
    IF s = << >> THEN << >>
    ELSE IF s[1] \in SpaceChars
         THEN IF Len(s) >= 2 /\ s[2] \in SpaceChars
              THEN SubSpaces(Tail(s))
              ELSE <<" ">> \o SubSpaces(Tail(s))
         ELSE <<s[1]>> \o SubSpaces(Tail(s))

\* str.strip()
RECURSIVE strip(_)
strip(s) ==
    IF s = << >> THEN << >>
    ELSE IF s[1] \in SpaceChars THEN strip(Tail(s))
    ELSE IF s[Len(s)] \in SpaceChars THEN strip(SubSeq(s, 1, Len(s) - 1))
    ELSE s

\* normalization without the second substitution: runs of spaces are left in
normalize_string_uncollapsed(s) == strip(SubNonWord(Lower(s)))

normalize_string(s) == strip(SubSpaces(SubNonWord(Lower(s))))

\* ------------------------------------------------------------ the resolver

\* the resolver with the default tried before the configuration: with the
\* default sqlite:obo: every prefix gets the derived adapter string
_get_adapter_default_first(cache, config, default, prefix, ctor_ok) ==
    IF prefix \in DOMAIN cache
    THEN [cache |-> cache, adapter |-> cache[prefix], raised |-> FALSE, built |-> None]
    ELSE LET absent == [cache |-> Put(cache, prefix, None), adapter |-> None,
                        raised |-> FALSE, built |-> None]
             adapter_string ==
                 IF default = <<"sqlite:obo:">> THEN <<"sqlite:obo:">> \o Lower(prefix)
                 ELSE IF prefix \in DOMAIN config THEN config[prefix]
                 ELSE << >>
         IN  IF adapter_string # << >>
             THEN IF ctor_ok
                  THEN [cache |-> Put(cache, prefix, Some(adapter_string)),
                        adapter |-> Some(adapter_string), raised |-> FALSE,
                        built |-> Some(adapter_string)]
                  ELSE [cache |-> cache, adapter |-> None, raised |-> TRUE,
                        built |-> Some(adapter_string)]
             ELSE absent

\* the resolver with the construction wrapped in try/except: a failure of
\* oaklib's get_adapter is stored and returned as absent
_get_adapter_swallowing(cache, config, default, prefix, ctor_ok) ==
    IF prefix \in DOMAIN cache
    THEN [cache |-> cache, adapter |-> cache[prefix], raised |-> FALSE, built |-> None]
    ELSE LET absent == [cache |-> Put(cache, prefix, None), adapter |-> None,
                        raised |-> FALSE, built |-> None]
             adapter_string ==
                 IF prefix \in DOMAIN config THEN config[prefix]
                 ELSE IF default = <<"sqlite:obo:">> THEN <<"sqlite:obo:">> \o Lower(prefix)
                 ELSE << >>
         IN  IF prefix \in DOMAIN config /\ config[prefix] = << >> THEN absent
             ELSE IF prefix \notin DOMAIN config /\ DOMAIN config # {} THEN absent
             ELSE IF adapter_string # << >>
                  THEN IF ctor_ok
                       THEN [cache |-> Put(cache, prefix, Some(adapter_string)),
                             adapter |-> Some(adapter_string), raised |-> FALSE,
                             built |-> Some(adapter_string)]
                       ELSE [absent EXCEPT !.built = Some(adapter_string)]
                  ELSE absent

\* _get_adapter(prefix) on adapter cache `cache`; ctor_ok says whether oaklib's
\* get_adapter succeeds if it is called.  built is the adapter string handed
\* to oaklib, if any.
_get_adapter(cache, config, default, prefix, ctor_ok) ==
    IF prefix \in DOMAIN cache
    THEN [cache |-> cache, adapter |-> cache[prefix], raised |-> FALSE, built |-> None]
    ELSE LET absent == [cache |-> Put(cache, prefix, None), adapter |-> None,
                        raised |-> FALSE, built |-> None]
             adapter_string ==
                 IF prefix \in DOMAIN config THEN config[prefix]
                 ELSE IF default = SqliteObo THEN SqliteObo \o Lower(prefix)
                 ELSE << >>
         IN  IF prefix \in DOMAIN config /\ config[prefix] = << >> THEN absent
             ELSE IF prefix \notin DOMAIN config /\ DOMAIN config # {} THEN absent
             ELSE IF adapter_string # << >>
                  THEN IF ctor_ok
                       THEN [cache |-> Put(cache, prefix, Some(adapter_string)),
                             adapter |-> Some(adapter_string), raised |-> FALSE,
                             built |-> Some(adapter_string)]
                       ELSE [cache |-> cache, adapter |-> None, raised |-> TRUE,
                             built |-> Some(adapter_string)]
                  ELSE absent

\* ------------------------------------------------------------ the ontology

\* Python's None, True and False where a field may hold any of them; "missing"
\* is an attribute the object does not have.
PyTruthy(v) == v = "True"

SubClassOf == "rdfs:subClassOf"

\* The graph behind every adapter: GO:2 is a subclass of GO:1.
Edges == { [sub |-> GO2, pred |-> SubClassOf, obj |-> GO1] }

Nodes == {GO1, GO2, E1}

RECURSIVE Closure(_, _, _, _)
Closure(seen, preds, up, n) ==
    LET step == { IF up THEN e.obj ELSE e.sub :
                    e \in { e \in Edges : /\ e.pred \in preds
                                          /\ (IF up THEN e.sub ELSE e.obj) \in seen } }
    IN  IF n = 0 \/ step \subseteq seen THEN seen
        ELSE Closure(seen \cup step, preds, up, n - 1)

RECURSIVE SetToSeq(_)
SetToSeq(S) ==
    IF S = {} THEN << >>
    ELSE LET x == CHOOSE x \in S : TRUE IN <<x>> \o SetToSeq(S \ {x})

\* adapter.ancestors / adapter.descendants: the sequence the backend yields
Traverse(node, preds, up, reflexive) ==
    LET reached == Closure({node}, preds, up, Cardinality(Nodes)) \ {node}
    IN  (IF PyTruthy(reflexive) THEN <<node>> ELSE << >>) \o SetToSeq(reached)

\* what one traversal adds to values when the backend fails after `failing`
\* items (-1: it does not fail; 0: the call itself raises)
Yielded(result, failing) ==
    IF failing < 0 THEN { result[i] : i \in 1..Len(result) }
    ELSE { result[i] : i \in 1..(IF failing < Len(result) THEN failing ELSE Len(result)) }

\* ------------------------------------------------------- the enum expansion

Query(sources, up, self) ==
    [source_nodes |-> sources, relationship_types |-> << >>,
     traverse_up |-> up, include_self |-> self]

Expr(reach, concepts, pvs) ==
    [reachable_from |-> reach, matches |-> None, concepts |-> concepts,
     permissible_values |-> pvs, include |-> << >>, minus |-> << >>,
     inherits |-> << >>]

PV(name, meaning) == [name |-> name, meaning |-> meaning]

\* the call _expand_reachable_from issues for one source node
TraversalCall(query, predicates, source_node) ==
    IF PyTruthy(query.traverse_up)
    THEN [op |-> "ancestors", node |-> source_node, predicates |-> predicates,
          reflexive |-> IF query.include_self # "missing"
                        THEN query.include_self ELSE "False",
          given |-> query.include_self]
    ELSE [op |-> "descendants", node |-> source_node, predicates |-> predicates,
          reflexive |-> IF query.include_self # "missing"
                        THEN query.include_self ELSE "True",
          given |-> query.include_self]

\* The expansion threads st = [cache, count, issued, asked, raised]: the
\* adapter cache, the constructions made, the traversals issued, the names
\* asked of the resolver, and whether an exception is propagating.  env = [config, default, ctor, fails] is the
\* plugin's configuration and what the backend does during this call.

\* the loop over query.source_nodes, once the adapter is there
TraverseSources(st, query) ==
    LET predicates == IF query.relationship_types # << >>
                      THEN query.relationship_types ELSE <<SubClassOf>>
    IN  { TraversalCall(query, predicates, query.source_nodes[i]) :
            i \in 1..Len(query.source_nodes) }

\* _expand_reachable_from after r = self._get_adapter(prefix)
ReachableWith(st, query, env, prefix, r) ==
    IF r.raised \/ r.adapter = None
    THEN [st |-> [st EXCEPT !.cache = r.cache,
                            !.count = Count(@, prefix, r.built # None),
                            !.raised = r.raised],
          values |-> {}]
    ELSE [st |-> [st EXCEPT !.cache = r.cache,
                            !.count = Count(@, prefix, r.built # None),
                            !.issued = @ \cup TraverseSources(st, query)],
          values |-> UNION { Yielded(Traverse(c.node, SeqSet(c.predicates),
                                              c.op = "ancestors", c.reflexive),
                                     env.fails[c.node]) :
                               c \in TraverseSources(st, query) }]

_expand_reachable_from(st, query, env) ==
    IF query.source_nodes = << >> THEN [st |-> st, values |-> {}]
    ELSE IF ~Truthy(_get_prefix(query.source_nodes[1])) THEN [st |-> st, values |-> {}]
    ELSE ReachableWith(st, query, env, _get_prefix(query.source_nodes[1])[1],
                       _get_adapter(st.cache, env.config, env.default,
                                    _get_prefix(query.source_nodes[1])[1],
                                    env.ctor[_get_prefix(query.source_nodes[1])[1]]))

\* placeholder in the source: always the empty set
_expand_matches(query) == {}

PVValues(pvs) ==
    UNION { {pvs[i].name} \cup (IF Truthy(pvs[i].meaning) THEN {pvs[i].meaning[1]} ELSE {}) :
              i \in 1..Len(pvs) }

\* the components _expand_enum_expression and expand_enum add without the backend
DirectValues(expr) ==
    (IF expr.matches # None THEN _expand_matches(expr.matches[1]) ELSE {})
    \cup SeqSet(expr.concepts)

\* values.update(...) with the result r of a step that may have raised
Update(r, more) ==
    IF r.st.raised THEN r ELSE [st |-> r.st, values |-> r.values \cup more]

\* the sub-expression expanded with its own include list honoured
_expand_enum_expression_nesting(st, expr, env) ==
    Update(IF expr.reachable_from # None
           THEN _expand_reachable_from(st, expr.reachable_from[1], env)
           ELSE [st |-> st, values |-> {}],
           DirectValues(expr) \cup PVValues(expr.permissible_values)
             \cup UNION { DirectValues(expr.include[i]) : i \in 1..Len(expr.include) })

_expand_enum_expression(st, expr, env) ==
    Update(IF expr.reachable_from # None
           THEN _expand_reachable_from(st, expr.reachable_from[1], env)
           ELSE [st |-> st, values |-> {}],
           DirectValues(expr) \cup PVValues(expr.permissible_values))

\* acc = [st, values, added, removed]: the running state, the accumulator
\* `values` of expand_enum, all that was unioned in and all that was subtracted.
Union(acc, r) ==
    IF r.st.raised THEN [acc EXCEPT !.st = r.st]
    ELSE [acc EXCEPT !.st = r.st, !.values = @ \cup r.values, !.added = @ \cup r.values]

Subtract(acc, r) ==
    IF r.st.raised THEN [acc EXCEPT !.st = r.st]
    ELSE [acc EXCEPT !.st = r.st, !.values = @ \ r.values, !.removed = @ \cup r.values]

\* for include_expr in enum_def.include: values.update(...)
RECURSIVE ExpandInclude(_, _, _)
ExpandInclude(acc, exprs, env) ==
    IF exprs = << >> \/ acc.st.raised THEN acc
    ELSE ExpandInclude(Union(acc, _expand_enum_expression(acc.st, exprs[1], env)),
                       Tail(exprs), env)

\* for minus_expr in enum_def.minus: values -= ...
RECURSIVE ExpandMinus(_, _, _)
ExpandMinus(acc, exprs, env) ==
    IF exprs = << >> \/ acc.st.raised THEN acc
    ELSE ExpandMinus(Subtract(acc, _expand_enum_expression(acc.st, exprs[1], env)),
                     Tail(exprs), env)

\* schema_view.get_enum(name)
get_enum(schema_view, name) ==
    IF name \in DOMAIN schema_view THEN Some(schema_view[name]) ELSE None

NewAcc(st) == [st |-> st, values |-> {}, added |-> {}, removed |-> {}]

\* parent_enum = schema_view.get_enum(parent_enum_name) is called
Ask(acc, name) == [acc EXCEPT !.st.asked = @ \cup {name}]

\* expand_enum(enum_def, schema_view), as the steps of its body in order; depth
\* counts the nested calls left before Python's recursion limit.
\* ExpandInherits is its loop over enum_def.inherits.
RECURSIVE expand_enum(_, _, _, _, _)
RECURSIVE ExpandInherits(_, _, _, _, _)
ExpandInherits(acc, names, schema_view, env, depth) ==
    IF names = << >> \/ acc.st.raised THEN acc
    ELSE IF get_enum(schema_view[1], names[1]) = None
         THEN ExpandInherits(Ask(acc, names[1]), Tail(names), schema_view, env, depth)
         ELSE ExpandInherits(
                  Union(acc, expand_enum(Ask(acc, names[1]).st,
                                         get_enum(schema_view[1], names[1])[1],
                                         schema_view, env, depth - 1)),
                  Tail(names), schema_view, env, depth)

StepReachable(acc, enum_def, env) ==
    IF enum_def.reachable_from # None
    THEN Union(acc, _expand_reachable_from(acc.st, enum_def.reachable_from[1], env))
    ELSE acc

StepDirect(acc, enum_def) ==
    IF acc.st.raised THEN acc
    ELSE Union(acc, [st |-> acc.st, values |-> DirectValues(enum_def)])

\* the inheritance step without the test for a resolver and for a parent
\* that was found: None.get_enum and expand_enum(None) raise
StepInherits_Strict(acc, enum_def, schema_view, env, depth) ==
    IF enum_def.inherits = << >> THEN acc
    ELSE IF \/ schema_view = None
            \/ \E i \in 1..Len(enum_def.inherits) :
                  get_enum(schema_view[1], enum_def.inherits[i]) = None
         THEN [acc EXCEPT !.st.raised = TRUE]
         ELSE ExpandInherits(acc, enum_def.inherits, schema_view, env, depth)

StepInherits(acc, enum_def, schema_view, env, depth) ==
    IF enum_def.inherits # << >> /\ schema_view # None
    THEN ExpandInherits(acc, enum_def.inherits, schema_view, env, depth)
    ELSE acc

StepPermissibleValues(acc, enum_def) ==
    IF acc.st.raised THEN [NewAcc(acc.st) EXCEPT !.st = acc.st]
    ELSE Union(acc, [st |-> acc.st, values |-> PVValues(enum_def.permissible_values)])

expand_enum(st, enum_def, schema_view, env, depth) ==
    IF depth = 0 THEN NewAcc([st EXCEPT !.raised = TRUE])
    ELSE StepPermissibleValues(
             StepInherits(
                 ExpandMinus(
                     ExpandInclude(
                         StepDirect(StepReachable(NewAcc(st), enum_def, env), enum_def),
                         enum_def.include, env),
                     enum_def.minus, env),
                 enum_def, schema_view, env, depth),
             enum_def)

\* ------------------------------------------------------- the enums expanded

Enum(name, reach, concepts, pvs, include, minus, inherits) ==
    [name |-> name, reachable_from |-> reach, matches |-> None,
     concepts |-> concepts, permissible_values |-> pvs, include |-> include,
     minus |-> minus, inherits |-> inherits]

\* reachability queries over both terms, in every direction and with every
\* way of giving include_self; then the degenerate ones
ReachQueries ==
    { Query(<<GO2, GO1>>, up, self) :
        up \in {"None", "True", "False"},
        self \in {"missing", "None", "True", "False"} }
    \cup { Query(<<E1, GO1>>, "None", "None"),
           Query(<< >>, "None", "None"),
           Query(<<NoColon>>, "None", "None"),
           [Query(<<GO1>>, "None", "True") EXCEPT !.relationship_types = <<"BFO:0000050">>] }

ReachEnum(q) == Enum("Reach", Some(q), << >>, << >>, << >>, << >>, << >>)

StaticEnum ==
    Enum("Static", None, << >>,
         << PV(<<"A">>, Some(GO1)), PV(<<"B">>, None) >>, << >>, << >>, << >>)

ParentEnum == Enum("Parent", None, <<GO1, GO2>>, << >>, << >>, << >>, << >>)

\* minus takes GO:2 out of the descendants of GO:1
MinusReachEnum ==
    Enum("MinusReach", Some(Query(<<GO1>>, "False", "True")), << >>, << >>, << >>,
         << Expr(None, <<GO2>>, << >>) >>, << >>)

\* minus names GO:2, which is also the meaning of a permissible value
MinusStaticEnum ==
    Enum("MinusStatic", None, <<GO1>>, << PV(<<"A">>, Some(GO2)) >>, << >>,
         << Expr(None, <<GO2>>, << >>) >>, << >>)

\* minus names GO:2, which the parent brings in
ChildEnum ==
    Enum("Child", None, << >>, << >>, << >>,
         << Expr(None, <<GO2>>, << >>) >>, <<"Parent", "Nope">>)

\* sub-expressions: a reachability query of an unconfigured prefix, and one
\* that itself carries include, minus and inherits
IncludeEnum ==
    Enum("Include", None, << >>, << >>,
         << Expr(Some(Query(<<E1>>, "None", "True")), << >>, << >>),
            [Expr(None, <<GO1>>, << PV(<<"C">>, Some(E1)) >>)
               EXCEPT !.include = << Expr(None, <<GO2>>, << >>) >>,
                      !.minus = << Expr(None, <<GO1>>, << >>) >>,
                      !.inherits = <<"Parent">>] >>,
         << >>, << >>)

\* an included and a subtracted sub-expression that each carry include, minus
\* and inherits
NestedEnum ==
    Enum("Nested", None, <<E1>>, << >>,
         << [Expr(None, <<GO1>>, << PV(<<"C">>, None) >>)
               EXCEPT !.include = << Expr(None, <<GO2>>, << >>) >>,
                      !.minus = << Expr(None, <<GO1>>, << >>) >>,
                      !.inherits = <<"Parent">>] >>,
         << [Expr(None, <<E1>>, << >>)
               EXCEPT !.include = << Expr(None, <<GO1>>, << >>) >>,
                      !.minus = << Expr(None, <<E1>>, << >>) >>,
                      !.inherits = <<"Static">>] >>,
         << >>)

OrphanEnum == Enum("Orphan", None, <<GO1>>, << >>, << >>, << >>, <<"Nope">>)

GrandChildEnum == Enum("GrandChild", None, <<E1>>, << >>, << >>, << >>, <<"Child">>)

NamedEnums == { StaticEnum, ParentEnum, MinusReachEnum, MinusStaticEnum, ChildEnum,
                IncludeEnum, NestedEnum, OrphanEnum, GrandChildEnum }

\* the SchemaView of the schema that declares the named enums
SchemaView == [n \in { e.name : e \in NamedEnums } |->
                 CHOOSE e \in NamedEnums : e.name = n]

SchemaViews == { None, Some(SchemaView) }

\* A schema whose inherits relation has every shape: a chain (Tip, Mid,
\* Base), a diamond (Diamond over Mid and Side, both over Base), an enum that
\* inherits from itself and two that inherit from each other.
BaseEnum == Enum("Base", None, <<GO1>>, << >>, << >>, << >>, << >>)

MidEnum == Enum("Mid", None, <<GO2>>, << >>, << >>, << >>, <<"Base">>)

SideEnum == Enum("Side", None, <<E1>>, << >>, << >>, << >>, <<"Base">>)

TipEnum == Enum("Tip", None, << >>, << >>, << >>, << >>, <<"Mid">>)

DiamondEnum == Enum("Diamond", None, << >>, << >>, << >>, << >>, <<"Mid", "Side">>)

SelfEnum == Enum("Self", None, <<GO1>>, << >>, << >>, << >>, <<"Self">>)

PingEnum == Enum("Ping", None, <<GO1>>, << >>, << >>, << >>, <<"Pong">>)

PongEnum == Enum("Pong", None, <<GO2>>, << >>, << >>, << >>, <<"Ping">>)

ShapeEnums == { BaseEnum, MidEnum, SideEnum, TipEnum, DiamondEnum, SelfEnum,
                PingEnum, PongEnum }

ShapeSchemaView == [n \in { e.name : e \in ShapeEnums } |->
                      CHOOSE e \in ShapeEnums : e.name = n]

\* what the backend does with the traversals of one expansion, per source node
AllAnswer == [n \in Nodes |-> -1]

TraversalOutcomes ==
    { AllAnswer, [AllAnswer EXCEPT ![GO1] = 0], [AllAnswer EXCEPT ![GO1] = 1] }

\* ------------------------------------------------------------- bookkeeping

NoRet == [op |-> "init", curie |-> << >>, prefix |-> << >>, raised |-> FALSE,
          label |-> None, adapter |-> None, built |-> None,
          was_fresh |-> TRUE, prior |-> None, queried |-> FALSE,
          enum |-> "", schema |-> FALSE, query |-> None, values |-> {}, added |-> {},
          removed |-> {}, issued |-> {}, fails |-> AllAnswer,
          text |-> << >>, normalized |-> << >>, asked |-> {}, loaded |-> FALSE, resolved |-> FALSE]

\* the answers of adapter.label(curie): the query fails, the term is not
\* known, or its label
LabelAnswers(curie) ==
    { [raised |-> TRUE, label |-> None],
      [raised |-> FALSE, label |-> None],
      [raised |-> FALSE, label |-> Some(OntologyLabel(curie))] }

\* --------------------------------------------------------------- operations

\* BaseOntologyPlugin(oak_adapter_string, cache_labels, cache_dir, oak_config_path)
Construct(adapter_string, caching, path) ==
    /\ oak_adapter_string' = adapter_string
    /\ cache_labels' = caching
    /\ oak_config_path' = path
    /\ _oak_config' = _load_oak_config(path)
    /\ _label_cache' = EmptyMap
    /\ _adapter_cache' = EmptyMap
    /\ _unknown_prefixes' = {}
    /\ label_queries' = EmptyMap
    /\ constructions' = EmptyMap
    /\ fresh' = TRUE
    /\ returned' = EmptyMap
    /\ ret' = NoRet
    /\ UNCHANGED << disk, now, obtained, other >>

\* self._get_adapter(prefix), called directly
Resolve(prefix, ctor_ok) ==
    LET r == _get_adapter(_adapter_cache, _oak_config, oak_adapter_string, prefix, ctor_ok)
    IN  /\ r.built # None => Calls(constructions, prefix) < MaxCalls
        /\ _adapter_cache' = r.cache
        /\ constructions' = Count(constructions, prefix, r.built # None)
        /\ fresh' = FALSE
        /\ ret' = [NoRet EXCEPT !.op = "resolve", !.prefix = prefix,
                                !.raised = r.raised, !.adapter = r.adapter,
                                !.built = r.built, !.was_fresh = fresh]
        /\ UNCHANGED << oak_adapter_string, cache_labels, oak_config_path, _oak_config,
                        _label_cache, _unknown_prefixes, disk, now, label_queries,
                        obtained, returned, other >>

\* the in-memory test as a test for a label: a cached absent is no hit
InMemory_Labelled(cache, curie) == curie \in DOMAIN cache /\ cache[curie] # None

\* if curie in self._label_cache
InMemory(cache, curie) == curie \in DOMAIN cache

\* the tracker assigned, not added to
RecordUnknown_Overwriting(unknown, config, prefix) ==
    IF ~_is_prefix_configured(config, prefix) THEN {prefix} ELSE unknown

\* if not self._is_prefix_configured(prefix): self._unknown_prefixes.add(prefix)
RecordUnknown(unknown, config, prefix) ==
    IF ~_is_prefix_configured(config, prefix) THEN unknown \cup {prefix} ELSE unknown

\* self.get_ontology_label(curie); answer is what adapter.label(curie) does
\* if it is called
GetLabel(curie, ctor_ok, answer) ==
    LET popt == _get_prefix(curie)
        base == [NoRet EXCEPT !.op = "get_label", !.curie = curie, !.was_fresh = fresh,
                              !.prior = obtained[curie]]
    IN
    /\ fresh' = FALSE
    /\ UNCHANGED << oak_adapter_string, cache_labels, oak_config_path, _oak_config,
                    other >>
    /\ IF InMemory(_label_cache, curie)
       THEN /\ ret' = [base EXCEPT !.label = _label_cache[curie]]
            /\ UNCHANGED << _label_cache, _adapter_cache, _unknown_prefixes, disk, now,
                            label_queries, constructions, obtained >>
       ELSE IF ~Truthy(popt)
       THEN /\ ret' = base
            /\ UNCHANGED << _label_cache, _adapter_cache, _unknown_prefixes, disk, now,
                            label_queries, constructions, obtained >>
       ELSE
       LET prefix == popt[1]
           disk1 == IF cache_labels THEN Mkdir(disk, prefix) ELSE disk
           cached == IF cache_labels THEN _load_cache(disk, prefix) ELSE << >>
           r == _get_adapter(_adapter_cache, _oak_config, oak_adapter_string,
                             prefix, ctor_ok)
       IN
       IF DictHas(cached, curie)
       THEN /\ _label_cache' = Put(_label_cache, curie, Some(DictGet(cached, curie)))
            /\ disk' = disk1
            /\ ret' = [base EXCEPT !.prefix = prefix, !.loaded = TRUE,
                                   !.label = Some(DictGet(cached, curie))]
            /\ UNCHANGED << _adapter_cache, _unknown_prefixes, now, label_queries,
                            constructions, obtained >>
       ELSE
       /\ r.built # None => Calls(constructions, prefix) < MaxCalls
       /\ constructions' = Count(constructions, prefix, r.built # None)
       /\ _adapter_cache' = r.cache
       /\ IF r.raised
          THEN /\ disk' = disk1
               /\ ret' = [base EXCEPT !.prefix = prefix, !.raised = TRUE,
                                      !.built = r.built, !.loaded = cache_labels,
                                      !.resolved = TRUE]
               /\ UNCHANGED << _label_cache, _unknown_prefixes, now, label_queries,
                               obtained >>
          ELSE IF r.adapter = None
          THEN /\ _unknown_prefixes' = RecordUnknown(_unknown_prefixes, _oak_config, prefix)
               /\ _label_cache' = Put(_label_cache, curie, None)
               /\ disk' = disk1
               /\ ret' = [base EXCEPT !.prefix = prefix, !.built = r.built,
                                      !.loaded = cache_labels, !.resolved = TRUE]
               /\ UNCHANGED << now, label_queries, obtained >>
          ELSE
          /\ Calls(label_queries, curie) < MaxCalls
          /\ label_queries' = Count(label_queries, curie, TRUE)
          /\ UNCHANGED _unknown_prefixes
          /\ IF answer.raised
             THEN /\ disk' = disk1
                  /\ ret' = [base EXCEPT !.prefix = prefix, !.raised = TRUE,
                                         !.adapter = r.adapter, !.built = r.built,
                                         !.queried = TRUE, !.loaded = cache_labels,
                                         !.resolved = TRUE]
                  /\ UNCHANGED << _label_cache, now, obtained >>
             ELSE /\ _label_cache' = Put(_label_cache, curie, answer.label)
                  /\ ret' = [base EXCEPT !.prefix = prefix, !.label = answer.label,
                                         !.adapter = r.adapter, !.built = r.built,
                                         !.queried = TRUE, !.loaded = cache_labels,
                                         !.resolved = TRUE]
                  /\ IF Truthy(answer.label) /\ cache_labels
                     THEN /\ disk' = _save_to_cache(disk1, prefix, curie,
                                                    answer.label[1], now)
                          /\ now' = now + 1
                          /\ obtained' = [obtained EXCEPT ![curie] = answer.label]
                     ELSE /\ disk' = disk1
                          /\ UNCHANGED << now, obtained >>
    /\ returned' = IF Truthy(popt) /\ ~ret'.raised /\ curie \notin DOMAIN returned
                   THEN Put(returned, curie, ret'.label)
                   ELSE returned

\* self.expand_enum(enum_def, schema_view); ctor and fails are what oaklib's
\* get_adapter and the traversals do if they are called
Expand(enum_def, schema_view, ctor, fails) ==
    \E r \in { expand_enum([cache |-> _adapter_cache, count |-> constructions,
                            issued |-> {}, asked |-> {}, raised |-> FALSE],
                           enum_def, schema_view,
                           [config |-> _oak_config, default |-> oak_adapter_string,
                            ctor |-> ctor, fails |-> fails],
                           RecursionLimit) } :
        /\ \A p \in DOMAIN r.st.count : r.st.count[p] <= MaxCalls
        /\ _adapter_cache' = r.st.cache
        /\ constructions' = r.st.count
        /\ fresh' = FALSE
        /\ ret' = [NoRet EXCEPT !.op = "expand", !.enum = enum_def.name,
                                !.schema = (schema_view # None),
                                !.query = enum_def.reachable_from,
                                !.raised = r.st.raised, !.values = r.values,
                                !.added = r.added, !.removed = r.removed,
                                !.issued = r.st.issued, !.asked = r.st.asked,
                                !.fails = fails,
                                !.was_fresh = fresh]
        /\ UNCHANGED << oak_adapter_string, cache_labels, oak_config_path, _oak_config,
                        _label_cache, _unknown_prefixes, disk, now, label_queries,
                        obtained, returned, other >>

\* Another process sharing cache_dir replaces or removes the terms.csv of a
\* prefix directory; the instance is not involved.
Tamper(dir, content) ==
    /\ disk' = Put(disk, dir, content)
    /\ disk' # disk
    /\ UNCHANGED << oak_adapter_string, cache_labels, oak_config_path, _oak_config,
                    _label_cache, _adapter_cache, _unknown_prefixes, now,
                    label_queries, constructions, fresh, obtained, returned, other,
                    ret >>

\* The external lock passes to the other instance: its next call runs on its
\* own configuration and in-memory caches, over the same cache_dir.
Switch ==
    /\ other' = Instance
    /\ oak_adapter_string' = other.oak_adapter_string
    /\ cache_labels' = other.cache_labels
    /\ oak_config_path' = other.oak_config_path
    /\ _oak_config' = other._oak_config
    /\ _label_cache' = other._label_cache
    /\ _adapter_cache' = other._adapter_cache
    /\ _unknown_prefixes' = other._unknown_prefixes
    /\ label_queries' = other.label_queries
    /\ constructions' = other.constructions
    /\ fresh' = other.fresh
    /\ returned' = other.returned
    /\ UNCHANGED << disk, now, obtained, ret >>

\* BaseOntologyPlugin.normalize_string(s): a static method, it reads and
\* writes nothing of the instance
Normalize(s) ==
    /\ ret' = [NoRet EXCEPT !.op = "normalize", !.text = s,
                            !.normalized = normalize_string(s), !.was_fresh = fresh]
    /\ UNCHANGED << oak_adapter_string, cache_labels, oak_config_path, _oak_config,
                    _label_cache, _adapter_cache, _unknown_prefixes, disk, now,
                    label_queries, constructions, fresh, obtained, returned, other >>

\* ------------------------------------------------------------ specification

Init ==
    /\ oak_adapter_string \in AdapterStrings
    /\ cache_labels \in BOOLEAN
    /\ oak_config_path \in ConfigPaths
    /\ _oak_config = _load_oak_config(oak_config_path)
    /\ _label_cache = EmptyMap
    /\ _adapter_cache = EmptyMap
    /\ _unknown_prefixes = {}
    /\ disk = EmptyMap
    /\ now = 0
    /\ label_queries = EmptyMap
    /\ constructions = EmptyMap
    /\ fresh = TRUE
    /\ obtained = [c \in Curies \cup {g1} |-> None]
    /\ returned = EmptyMap
    /\ other = DefaultInstance
    /\ ret = NoRet

\* One plugin instance over its lifetime, asked for one term of each prefix and
\* for the identifiers without a prefix; construction and label queries may fail.
Next ==
    \/ \E p \in Prefixes, ok \in BOOLEAN : Resolve(p, ok)
    \/ \E c \in Curies \ {GO2}, ok \in BOOLEAN : \E answer \in LabelAnswers(c) :
          GetLabel(c, ok, answer)

Spec == Init /\ [][Next]_vars

\* Successive plugin instances over one cache root, with a backend that answers.
NextRoot ==
    \/ \E a \in AdapterStrings, c \in BOOLEAN, p \in ConfigPaths : Construct(a, c, p)
    \/ \E p \in Prefixes : Resolve(p, TRUE)
    \/ \E c \in Curies : \E answer \in { a \in LabelAnswers(c) : ~a.raised } :
          GetLabel(c, TRUE, answer)

SpecRoot == Init /\ [][NextRoot]_vars

\* The expansion engine on successive instances, next to the resolver and the
\* label lookups that share its adapters.
NextExpand ==
    \/ \E a \in AdapterStrings, c \in BOOLEAN, p \in ConfigPaths : Construct(a, c, p)
    \/ \E p \in Prefixes, ok \in BOOLEAN : Resolve(p, ok)
    \/ \E e \in NamedEnums, sv \in SchemaViews, ctor \in [Prefixes -> BOOLEAN] :
          Expand(e, sv, ctor, AllAnswer)
    \/ \E q \in ReachQueries, ok \in BOOLEAN, fails \in TraversalOutcomes :
          Expand(ReachEnum(q), None, [p \in Prefixes |-> ok], fails)

SpecExpand == Init /\ [][NextExpand]_vars

\* The characters texts are drawn from: an upper-case letter, the underscore,
\* a punctuation mark, the space and the tab.
TextChars == {"G", "_", "-", " ", "\t"}

Hello == <<"H", "e", "l", "l", "o", ",", " ", "W", "o", "r", "l", "d", "!">>

TCell == <<"T", "-", "C", "e", "l", "l", " ", "R", "e", "c", "e", "p", "t", "o", "r">>

Texts == {Hello, TCell} \cup UNION { [1..n -> TextChars] : n \in 0..MaxText }

\* the plugin the test constructs
InitTest ==
    /\ Init
    /\ oak_adapter_string = SqliteObo
    /\ ~cache_labels
    /\ oak_config_path = None

\* The test's plugin, asked to normalize texts.
NextNormalize == \E s \in Texts : Normalize(s)

SpecNormalize == InitTest /\ [][NextNormalize]_vars

\* The identifiers looked up next to a cache root that other processes write:
\* two terms of one prefix and one of a prefix that lower-cases to the same
\* directory.
DiskCuries == {GO1, GO2, g1}

Row(curie, label, t) == [curie |-> curie, label |-> label, retrieved_at |-> t]

\* what another process leaves in a prefix directory: no file, or a file
\* with other labels for the two terms
ForeignFiles == { None, Some(<< Row(GO1, <<"z">>, 0), Row(GO2, <<"z">>, 0) >>) }

NextDisk ==
    \/ \E c \in DiskCuries : \E answer \in { a \in LabelAnswers(c) : ~a.raised } :
          GetLabel(c, TRUE, answer)
    \/ \E content \in ForeignFiles : Tamper(<<"g">>, content)

SpecDisk == Init /\ [][NextDisk]_vars

\* One instance over its lifetime, used for label lookups, direct resolution
\* and enum expansion.
InstanceEnums ==
    { IncludeEnum, ChildEnum, ReachEnum(Query(<<E1, GO1>>, "None", "None")),
      ReachEnum(Query(<<GO2, GO1>>, "True", "True")) }

NextInstance ==
    \/ \E p \in Prefixes, ok \in BOOLEAN : Resolve(p, ok)
    \/ \E c \in {GO1, E1}, ok \in BOOLEAN : \E answer \in LabelAnswers(c) :
          GetLabel(c, ok, answer)
    \/ \E e \in InstanceEnums, ok \in BOOLEAN :
          Expand(e, Some(SchemaView), [p \in Prefixes |-> ok], AllAnswer)

SpecInstance == Init /\ [][NextInstance]_vars

\* Two instances with persistent caching over one cache_dir, their
\* get_ontology_label calls made one at a time in any order, over a backend
\* that answers.
InitShared == Init /\ cache_labels

NextShared ==
    \/ \E c \in DiskCuries : \E answer \in { a \in LabelAnswers(c) : ~a.raised } :
          GetLabel(c, TRUE, answer)
    \/ Switch

SpecShared == InitShared /\ [][NextShared]_vars

\* One instance expanding the enums of the schema with every shape of
\* inheritance, over a backend that answers.
NextShapes ==
    \/ \E p \in Prefixes : Resolve(p, TRUE)
    \/ \E e \in ShapeEnums, sv \in {None, Some(ShapeSchemaView)} :
          Expand(e, sv, [p \in Prefixes |-> TRUE], AllAnswer)

SpecShapes == Init /\ [][NextShapes]_vars

\* One instance expanding the enums its schema declares, with or without the
\* SchemaView, next to the resolver.
NextEnums ==
    \/ \E p \in Prefixes, ok \in BOOLEAN : Resolve(p, ok)
    \/ \E e \in NamedEnums, sv \in SchemaViews, ctor \in [Prefixes -> BOOLEAN] :
          Expand(e, sv, ctor, AllAnswer)

SpecEnums == Init /\ [][NextEnums]_vars

\* ------------------------------------------------------------------ claims

\* the prefix an operation on curie works with, when it has one
PrefixOf(curie) == _get_prefix(curie)[1]

\* C1: the result of expand is everything that was unioned in (static values,
\* reachability, matches, concepts, includes, inherited parents) minus
\* everything the minus sub-expressions expand to, subtraction applied last.
C1_SubtractionLast ==
    (ret.op = "expand" /\ ~ret.raised) => ret.values = ret.added \ ret.removed

\* C2: on one instance the backend label operation is invoked at most once per
\* identifier, whatever the first invocation did (label, absent or failure).
C2_OneLabelQueryPerIdentifier ==
    \A c \in DOMAIN label_queries : label_queries[c] <= 1

\* C3: on one instance backend construction is attempted at most once per
\* prefix, and an entry of the Adapter Resolution Cache never changes.
C3_OneConstructionPerPrefix ==
    [][ /\ \A p \in DOMAIN constructions' : constructions'[p] <= 1
        /\ \A p \in DOMAIN _adapter_cache :
              /\ p \in DOMAIN _adapter_cache'
              /\ _adapter_cache'[p] = _adapter_cache[p]
              /\ Calls(constructions', p) = Calls(constructions, p) ]_vars

\* C4: once a configuration document was loaded, a prefix that is not a key of
\* its map resolves to absent and no backend is built for it.
C4_AllowList ==
    /\ oak_config_path # None =>
          \A p \in DOMAIN _adapter_cache :
              p \notin DOMAIN _oak_config => _adapter_cache[p] = None
    /\ (/\ ret.op = "resolve"
        /\ oak_config_path # None
        /\ ret.prefix \notin DOMAIN _oak_config)
          => (~ret.raised /\ ret.adapter = None /\ ret.built = None)

\* C5: a prefix configured with an empty adapter string is not unknown: the
\* label lookup returns absent and the Unknown Prefix Set holds only prefixes
\* that are no key of the configuration.
C5_ExplicitlyEmptyIsNotUnknown ==
    /\ _unknown_prefixes \cap DOMAIN _oak_config = {}
    /\ (/\ ret.op = "get_label"
        /\ Truthy(_get_prefix(ret.curie))
        /\ PrefixOf(ret.curie) \in DOMAIN _oak_config
        /\ _oak_config[PrefixOf(ret.curie)] = << >>)
          => (~ret.raised /\ ret.label = None)

\* C6: with a configuration loaded, get_label on an identifier whose prefix is
\* no key of it returns absent and leaves the prefix in the Unknown Prefix Set,
\* whatever the state of the plugin and of the persistent cache.
C6_UnconfiguredPrefixIsUnknown ==
    (/\ ret.op = "get_label"
     /\ oak_config_path # None
     /\ Truthy(_get_prefix(ret.curie))
     /\ PrefixOf(ret.curie) \notin DOMAIN _oak_config)
       => (/\ ~ret.raised
           /\ ret.label = None
           /\ PrefixOf(ret.curie) \in _unknown_prefixes)

\* C7: get_label on an identifier without a colon returns absent and changes
\* neither cache tier, the Adapter Resolution Cache nor the Unknown Prefix
\* Set, and reaches neither the resolver nor the backend; the prefix a lookup
\* works with is what precedes the first colon of the identifier.
C7_NoColonNoEffect ==
    /\ [][ (ret'.op = "get_label" /\ ~HasColon(ret'.curie))
              => (/\ ~ret'.raised
                  /\ ret'.label = None
                  /\ ret'.built = None
                  /\ ~ret'.queried
                  /\ UNCHANGED << _label_cache, disk, _adapter_cache,
                                  _unknown_prefixes, label_queries,
                                  constructions >>) ]_vars
    /\ [](ret.op = "get_label" /\ ret.prefix # << >>
            => (/\ ":" \notin SeqSet(ret.prefix)
                /\ Len(ret.curie) > Len(ret.prefix)
                /\ SubSeq(ret.curie, 1, Len(ret.prefix) + 1) = ret.prefix \o <<":">>))

\* a lookup of an identifier without a colon on an instance whose caches and
\* Unknown Prefix Set are no longer empty
C7_Witness ==
    /\ ret.op = "get_label"
    /\ ret.curie = NoColon
    /\ _unknown_prefixes # {}
    /\ \E c \in DOMAIN _label_cache : _label_cache[c] # None
    /\ \E p \in DOMAIN _adapter_cache : _adapter_cache[p] # None
    /\ cache_labels
    /\ \E d \in DOMAIN disk : disk[d] # None

\* C8: a label stored by an earlier instance is what the first lookup of a
\* fresh instance over the same cache root returns, with no adapter built and
\* no backend label query.
C8_PersistentRoundTrip ==
    (/\ ret.op = "get_label"
     /\ ret.was_fresh
     /\ cache_labels
     /\ ret.prior # None)
       => (/\ ~ret.raised
           /\ ret.label = ret.prior
           /\ ret.built = None
           /\ ~ret.queried
           /\ constructions = EmptyMap
           /\ label_queries = EmptyMap)

\* C9: a traversal whose query does not give include_self is issued reflexive
\* when it asks for descendants and not reflexive when it asks for ancestors;
\* a given include_self is passed on as it is.
C9_ReflexiveDefault ==
    ret.op = "expand" =>
        \A c \in ret.issued :
            IF c.given \in {"True", "False"}
            THEN c.reflexive = c.given
            ELSE PyTruthy(c.reflexive) = (c.op = "descendants")

\* C10: a reachability expansion that finds no usable adapter for the prefix
\* of its sources, a prefix the configuration does not have, returns the empty
\* set without raising and leaves the prefix in the Unknown Prefix Set.
C10_ExpansionFeedsUnknownPrefixes ==
    (/\ ret.op = "expand"
     /\ ret.enum = "Reach"
     /\ ret.query[1].source_nodes # << >>
     /\ Truthy(_get_prefix(ret.query[1].source_nodes[1]))
     /\ PrefixOf(ret.query[1].source_nodes[1]) \notin DOMAIN _oak_config
     /\ ~ret.raised
     /\ _adapter_cache[PrefixOf(ret.query[1].source_nodes[1])] = None)
       => (/\ ret.values = {}
           /\ PrefixOf(ret.query[1].source_nodes[1]) \in _unknown_prefixes)

\* the complete result of an issued traversal
CompleteResult(c) ==
    SeqSet(Traverse(c.node, SeqSet(c.predicates), c.op = "ancestors", c.reflexive))

\* C11: a reachability expansion does not raise when the traversal of a source
\* fails, at the call or while its result is consumed; the failing source
\* contributes nothing, and the result is the union of the complete results of
\* the sources whose traversal succeeded.
C11_FailureIsolation ==
    (ret.op = "expand" /\ ret.enum = "Reach" /\ ret.issued # {})
       => (/\ ~ret.raised
           /\ ret.values = UNION { CompleteResult(c) :
                                     c \in { c \in ret.issued : ret.fails[c.node] < 0 } })

\* the names of an inherits list that the resolver, if there is one, resolves
Resolvable(names, schema_view) ==
    IF schema_view = None THEN << >>
    ELSE SelectSeq(names, LAMBDA n : get_enum(schema_view[1], n) # None)

\* C12: expanding an enum with a non-empty inherits list raises no error when
\* no resolver is supplied or a parent name does not resolve; such a parent
\* contributes nothing: the result is that of the same enum inheriting only
\* from its resolvable parents.
C12_BestEffortInheritance ==
    [][ \A e \in { e \in NamedEnums : e.inherits # << >> }, sv \in SchemaViews,
           ctor \in [Prefixes -> BOOLEAN] :
          (/\ Resolvable(e.inherits, sv) # e.inherits
           /\ ret'.op = "expand" /\ ret'.enum = e.name
           /\ Expand(e, sv, ctor, AllAnswer))
             => (/\ ~ret'.raised
                 /\ ret'.values =
                      expand_enum([cache |-> _adapter_cache, count |-> constructions,
                                   issued |-> {}, asked |-> {}, raised |-> FALSE],
                                  [e EXCEPT !.inherits = Resolvable(e.inherits, sv)],
                                  sv,
                                  [config |-> _oak_config,
                                   default |-> oak_adapter_string,
                                   ctor |-> ctor, fails |-> AllAnswer],
                                  RecursionLimit).values) ]_vars

\* an enum that inherits from a parent that resolves and from one that does
\* not was expanded with the resolver
C12_Witness ==
    /\ ret.op = "expand"
    /\ ret.enum = "Child"
    /\ ret.schema
    /\ ~ret.raised
    /\ ret.values = {GO1, GO2}

\* the rows, with their timestamps, of the terms.csv in directory dir of cache
\* root d; none when the file is not there
Rows(d, dir) == IF dir \in DOMAIN d /\ d[dir] # None THEN d[dir][1] ELSE << >>

\* C13: a failure of backend construction reaches the caller of the operation
\* as an exception, and a get_label call that ends in it leaves the in-memory
\* label cache, the rows of the persistent label cache and the Unknown Prefix
\* Set as they were.
C13_ConstructionFailurePropagates ==
    [][ \A p \in Prefixes :
          (/\ Calls(constructions', p) > Calls(constructions, p)
           /\ (p \notin DOMAIN _adapter_cache' \/ _adapter_cache'[p] = None))
             => (/\ ret'.raised
                 /\ ret'.prefix = p
                 /\ ret'.adapter = None
                 /\ ret'.op = "get_label"
                       => (/\ _label_cache' = _label_cache
                           /\ _unknown_prefixes' = _unknown_prefixes
                           /\ \A dir \in (DOMAIN disk) \cup (DOMAIN disk') :
                                 Rows(disk', dir) = Rows(disk, dir))) ]_vars

\* a label lookup ended in a construction failure on an instance with
\* persistent caching whose label cache and Unknown Prefix Set hold entries
C13_Witness ==
    /\ ret.op = "get_label"
    /\ ret.raised
    /\ ~ret.queried
    /\ ret.built # None
    /\ cache_labels
    /\ _label_cache # EmptyMap
    /\ _unknown_prefixes # {}

\* s with every maximal run of characters of class replaced by one space
RECURSIVE ReplaceRuns(_, _)
ReplaceRuns(s, class) ==
    IF s = << >> THEN << >>
    ELSE IF s[1] \notin class THEN <<s[1]>> \o ReplaceRuns(Tail(s), class)
    ELSE IF Len(s) >= 2 /\ s[2] \in class THEN ReplaceRuns(Tail(s), class)
    ELSE <<" ">> \o ReplaceRuns(Tail(s), class)

\* the characters of s that are neither word characters nor whitespace
NonWordIn(s) == SeqSet(s) \ (WordChars \cup SpaceChars)

\* s without its leading and trailing spaces
Trim(s) ==
    IF \A i \in 1..Len(s) : s[i] = " " THEN << >>
    ELSE SubSeq(s, CHOOSE i \in 1..Len(s) : s[i] # " " /\ \A j \in 1..(i - 1) : s[j] = " ",
                   CHOOSE i \in 1..Len(s) : s[i] # " " /\ \A j \in (i + 1)..Len(s) : s[j] = " ")

\* C14: normalize(text) is the text lowercased, every run of characters that
\* are neither word characters nor whitespace replaced by one space, every
\* whitespace run collapsed to one space, and leading and trailing space
\* trimmed; "Hello, World!" gives "hello world", "T-Cell Receptor" gives
\* "t cell receptor"; normalizing a normalized text changes nothing.
C14_Normalize ==
    ret.op = "normalize" =>
        /\ ret.normalized =
              Trim(ReplaceRuns(ReplaceRuns(Lower(ret.text), NonWordIn(Lower(ret.text))),
                               SpaceChars))
        /\ normalize_string(ret.normalized) = ret.normalized
        /\ ret.text = Hello => ret.normalized = <<"h", "e", "l", "l", "o", " ",
                                                  "w", "o", "r", "l", "d">>
        /\ ret.text = TCell => ret.normalized = <<"t", " ", "c", "e", "l", "l", " ", "r",
                                                  "e", "c", "e", "p", "t", "o", "r">>

\* a text with a punctuation mark next to whitespace between two words was
\* normalized
C14_Witness ==
    /\ ret.op = "normalize"
    /\ ret.text = <<"G", "-", "\t">>
    /\ ret.normalized = <<"g">>

\* C15: the Unknown Prefix Set is empty when the instance is constructed, and
\* no get_label, resolve or expand step removes a prefix from it.
C15_UnknownPrefixesAppendOnly ==
    /\ [](fresh => _unknown_prefixes = {})
    /\ [][_unknown_prefixes \subseteq _unknown_prefixes']_vars

\* both prefixes were recorded, and an expansion came after
C15_Witness ==
    /\ _unknown_prefixes = {<<"G">>, <<"E">>}
    /\ ret.op = "expand"
    /\ ret.issued = {}

\* C16: once get_label has returned a result for an identifier with a prefix,
\* every later get_label for it on the instance returns that result, whatever
\* became of the prefix's persistent file, and reads no file, resolves no
\* adapter, queries no backend and changes neither cache tier, the Adapter
\* Resolution Cache nor the Unknown Prefix Set.
C16_InMemoryAuthoritative ==
    [][ \A c \in DiskCuries :
          (/\ c \in DOMAIN returned
           /\ ret'.op = "get_label" /\ ret'.curie = c
           /\ \E ok \in BOOLEAN, answer \in LabelAnswers(c) : GetLabel(c, ok, answer))
             => (/\ ~ret'.raised
                 /\ ret'.label = returned[c]
                 /\ ~ret'.loaded /\ ~ret'.resolved /\ ~ret'.queried
                 /\ UNCHANGED << _label_cache, disk, _adapter_cache, _unknown_prefixes,
                                 label_queries, constructions, now >>) ]_vars

\* G:1 was answered from memory with the label first retrieved, after the file
\* of its prefix was replaced by one with another label, which a lookup of
\* G:2 in between has read
C16_Witness ==
    /\ cache_labels
    /\ ret.op = "get_label" /\ ret.curie = GO1
    /\ ~ret.loaded
    /\ ret.label = Some(OntologyLabel(GO1))
    /\ GO2 \in DOMAIN _label_cache /\ _label_cache[GO2] = Some(<<"z">>)
    /\ DictGet(_load_cache(disk, <<"G">>), GO1) = <<"z">>

\* the prefixes of the identifiers looked up over the shared cache root
DiskPrefixes == { PrefixOf(c) : c \in DiskCuries }

\* C17: a get_label call on an identifier of prefix P leaves the persistent
\* collection of every other prefix Q, its rows and their timestamps, as it
\* was.
C17_PerPrefixIndependence ==
    [][ \A c \in DiskCuries :
          (/\ ret'.op = "get_label" /\ ret'.curie = c
           /\ \E ok \in BOOLEAN, answer \in LabelAnswers(c) : GetLabel(c, ok, answer))
             => \A Q \in DiskPrefixes \ {PrefixOf(c)} :
                   Rows(disk', _get_cache_file(Q)) = Rows(disk, _get_cache_file(Q)) ]_vars

\* the rows of the file that were there before, for identifiers other than id
Others(rows, id) == SelectSeq(rows, LAMBDA r : r.curie # id)

\* C20: when get_label stores a newly retrieved label for an identifier, the
\* rows already in the prefix's collection for other identifiers keep their
\* identifier, label and retrieval timestamp; only the row of the identifier is
\* added or updated, stamped with the time of this retrieval.
C20_AppendPreservesRows ==
    [][ \A c \in DiskCuries :
          (/\ ret'.op = "get_label" /\ ret'.curie = c /\ ret'.queried
           /\ cache_labels /\ Truthy(ret'.label)
           /\ \E ok \in BOOLEAN, answer \in LabelAnswers(c) : GetLabel(c, ok, answer))
             => (/\ Others(Rows(disk', _get_cache_file(PrefixOf(c))), c)
                      = Others(Rows(disk, _get_cache_file(PrefixOf(c))), c)
                 /\ \E i \in 1..Len(Rows(disk', _get_cache_file(PrefixOf(c)))) :
                       Rows(disk', _get_cache_file(PrefixOf(c)))[i]
                         = Row(c, ret'.label[1], now)) ]_vars

\* C18: the first resolution of a prefix that is a key of the loaded
\* configuration with a non-empty value builds the handle from that value,
\* whatever the default adapter string; with no configuration loaded it builds
\* the handle from sqlite:obo: followed by the lower-cased prefix exactly when
\* the default is sqlite:obo:, and otherwise returns absent and builds nothing.
C18_ResolutionOrder ==
    [][ \A p \in Prefixes :
          (/\ p \notin DOMAIN _adapter_cache
           /\ ret'.op = "resolve" /\ ret'.prefix = p
           /\ \E ok \in BOOLEAN : Resolve(p, ok))
             => /\ (p \in DOMAIN _oak_config /\ _oak_config[p] # << >>)
                      => ret'.built = Some(_oak_config[p])
                /\ (oak_config_path = None /\ oak_adapter_string = <<"sqlite:obo:">>)
                      => ret'.built = Some(<<"sqlite:obo:">> \o Lower(p))
                /\ (oak_config_path = None /\ oak_adapter_string # <<"sqlite:obo:">>)
                      => (/\ ret'.built = None
                          /\ ret'.adapter = None
                          /\ ~ret'.raised
                          /\ constructions' = constructions)
                /\ (ret'.built # None /\ ~ret'.raised) => ret'.adapter = ret'.built ]_vars

\* a configured adapter string was used although the default is sqlite:obo:
C18_Witness ==
    /\ ret.op = "resolve"
    /\ oak_adapter_string = SqliteObo
    /\ ret.prefix = <<"G">>
    /\ ret.built = Some(<<"simpleobo:", "g", ".obo">>)
    /\ ret.adapter = ret.built

\* an expression without the include, minus and inherits it carries
Bare(expr) == [expr EXCEPT !.include = << >>, !.minus = << >>, !.inherits = << >>]

\* an enum whose include and minus sub-expressions are bare
WithBareSubs(e) ==
    [e EXCEPT !.include = [i \in 1..Len(e.include) |-> Bare(e.include[i])],
              !.minus = [i \in 1..Len(e.minus) |-> Bare(e.minus[i])]]

\* what an expansion from the state before the step gives: its result, the
\* names it asks of the resolver, and whether it raises
Outcome(e, sv, ctor) ==
    LET r == expand_enum([cache |-> _adapter_cache, count |-> constructions,
                          issued |-> {}, asked |-> {}, raised |-> FALSE],
                         e, sv,
                         [config |-> _oak_config, default |-> oak_adapter_string,
                          ctor |-> ctor, fails |-> AllAnswer],
                         RecursionLimit)
    IN  [values |-> r.values, asked |-> r.st.asked, raised |-> r.st.raised]

\* C19: an include, minus or inherits carried by a sub-expression of include
\* or minus has no effect on the result, and expanding a sub-expression asks
\* nothing of the resolver: the expansion gives what it gives with bare
\* sub-expressions, and an enum without parents of its own asks the resolver
\* for no name.
C19_SubExpressionsRestricted ==
    [][ \A e \in { e \in NamedEnums : WithBareSubs(e) # e }, sv \in SchemaViews,
           ctor \in [Prefixes -> BOOLEAN] :
          (/\ ret'.op = "expand" /\ ret'.enum = e.name
           /\ Expand(e, sv, ctor, AllAnswer))
             => (/\ [values |-> ret'.values, asked |-> ret'.asked,
                      raised |-> ret'.raised] = Outcome(WithBareSubs(e), sv, ctor)
                 /\ e.inherits = << >> => ret'.asked = {}) ]_vars

\* the enum whose included and subtracted sub-expressions carry include,
\* minus and inherits was expanded with the resolver at hand
C19_Witness ==
    /\ ret.op = "expand"
    /\ ret.enum = "Nested"
    /\ ret.schema
    /\ ~ret.raised
    /\ ret.values = {GO1, <<"C">>}
    /\ ret.asked = {}

\* C21: with a backend that answers, expand returns a set for every enum of a
\* finite schema, whatever the shape of its inherits relation: it ends, and it
\* ends without an error.
C21_ExpandTerminates ==
    ret.op = "expand" => ~ret.raised

\* C22: with the calls of two instances over one cache root made one at a
\* time, no stored label is lost: the persistent collection of a prefix holds
\* the label of every identifier for which an instance retrieved a non-empty
\* label from the backend.
C22_NoLostLabel ==
    \A c \in DiskCuries :
        obtained[c] # None =>
            \E i \in 1..Len(Rows(disk, _get_cache_file(PrefixOf(c)))) :
                /\ Rows(disk, _get_cache_file(PrefixOf(c)))[i].curie = c
                /\ Rows(disk, _get_cache_file(PrefixOf(c)))[i].label = obtained[c][1]

====
